---- MODULE Spec2Model ----
(***************************************************************************)
(* A model of src/app.py, the Streamlit attendance application.  The store *)
(* is the SQLite database (tables users, trainers, classes, units,         *)
(* class_rep_assignments, lesson_attendance and their AUTOINCREMENT        *)
(* sequences); a session is one browser session's st.session_state.  One   *)
(* action is one script run triggered by a widget: init_db, the handler of *)
(* the pressed button, and the run that st.rerun() starts (init_db again). *)
(* Text is a sequence of tokens: a token is one character, or one of the   *)
(* words the program compares as a whole ("admin", a department code).     *)
(***************************************************************************)
EXTENDS Integers, Sequences, FiniteSets, TLC

VARIABLES
  users,      \* the users table: rows [id, username, password, role, department_code]
  userSeq,    \* the largest users.id ever allocated (AUTOINCREMENT)
  tbl,        \* the trainers, classes and units tables, by table name
  tblSeq,     \* the largest id ever allocated in each of them
  assigns,    \* the class_rep_assignments table
  assignSeq,  \* the largest class_rep_assignments.id ever allocated
  lessons,    \* the lesson_attendance table
  lessonSeq,  \* the largest lesson_attendance.id ever allocated
  logged_in,  \* st.session_state.logged_in of each session
  user,       \* st.session_state.user of each session: the row read at login
  last,       \* what the last script run showed
  rank        \* the Trainer Statistics frame the last script run showed

vars == <<users, userSeq, tbl, tblSeq, assigns, assignSeq, lessons, lessonSeq,
          logged_in, user, last, rank>>

(***************************************************************************)
(* Bounds of the model.                                                    *)
(***************************************************************************)
\* the largest users.id the create-user form may still allocate
MaxUserSeq == 3
\* the number of rows the three reference tables may allocate in total
MaxEntityRows == 3
\* the number of rows an uploaded file may hold, and the number of rows the
\* bulk import may allocate in total
MaxFileRows == 2
\* the largest class_rep_assignments.id the assign form may allocate
MaxAssignSeq == 3
\* the largest lesson_attendance.id the report form may allocate
MaxLessonSeq == 3

\* the departments the model uses, a part of DEPARTMENTS
Depts == {"ICT", "ELEC"}
\* the browser sessions
Sessions == {"s1", "s2"}

DEPARTMENTS ==
  {"AGME", "AES", "BCE", "BSD", "ELEC", "HATS", "HAAPS", "LSD", "ICT"}

TIME_SLOTS ==
  {"7.30-9.00", "09.00-10.30", "10.30-12.00", "12.00-1.30", "1.30-3.00",
   "3.00-4.30", "4.30-6.00"}

Tables == {"trainers", "classes", "units"}

(***************************************************************************)
(* Text: str.strip() and str.upper() on token sequences.                   *)
(***************************************************************************)
IsSpace(c) == c = " "

RECURSIVE LStrip(_)
LStrip(t) ==
  IF t # <<>> /\ IsSpace(Head(t)) THEN LStrip(Tail(t)) ELSE t

RECURSIVE RStrip(_)
RStrip(t) ==
  IF t # <<>> /\ IsSpace(t[Len(t)]) THEN RStrip(SubSeq(t, 1, Len(t) - 1)) ELSE t

Strip(t) == RStrip(LStrip(t))

UpperCh(c) ==
  CASE c = "a" -> "A"
    [] c = "b" -> "B"
    [] c = "n" -> "N"
    [] OTHER -> c

Upper(t) == [i \in DOMAIN t |-> UpperCh(t[i])]

(***************************************************************************)
(* Sessions and outcomes.                                                  *)
(***************************************************************************)
\* st.session_state.user of a session that is not logged in
NoUser ==
  [id |-> 0, username |-> <<>>, password |-> <<>>, role |-> "NONE",
   department_code |-> "NONE"]

\* what the last script run showed: the handler, the session, the table it
\* worked on ("": none), the id typed into its number input (0: none), the
\* count it reported (0: none), the message's type and its text
Outcome(op, s, id, type, text) ==
  [op |-> op, s |-> s, table |-> "", id |-> id, count |-> 0, type |-> type,
   text |-> text]

TableOutcome(op, s, table, id, count, type, text) ==
  [op |-> op, s |-> s, table |-> table, id |-> id, count |-> count,
   type |-> type, text |-> text]

NoOutcome == Outcome("none", "s1", 0, "none", "")

execute_duplicate == "Duplicate Entry: This record already exists."

(***************************************************************************)
(* init_db: the seeding of the default super admin.  The INSERT is a plain *)
(* INSERT: when the username "admin" is held by a user that is no          *)
(* SUPER_ADMIN it raises IntegrityError and the script run ends there.     *)
(***************************************************************************)
AdminName == <<"admin">>
AdminPassword == <<"admin123">>

NoSuperAdmin(U) == \A u \in U : u.role # "SUPER_ADMIN"

UsernameTaken(U, name) == \E u \in U : u.username = name

\* init_db completes on users table U
InitDbOk(U) == ~(NoSuperAdmin(U) /\ UsernameTaken(U, AdminName))

\* the users table after init_db (unchanged when it raises)
InitDbUsers(U, seq) ==
  IF NoSuperAdmin(U) /\ ~UsernameTaken(U, AdminName)
  THEN U \cup {[id |-> seq + 1, username |-> AdminName,
                password |-> AdminPassword, role |-> "SUPER_ADMIN",
                department_code |-> "ALL"]}
  ELSE U

InitDbSeq(U, seq) ==
  IF NoSuperAdmin(U) /\ ~UsernameTaken(U, AdminName) THEN seq + 1 ELSE seq

(***************************************************************************)
(* What a script run shows.  A handler stores its message and calls        *)
(* st.rerun(); the new run calls init_db before show_message, so the       *)
(* message is seen only when init_db completes on the new users table.     *)
(***************************************************************************)
Shown(U, op, s, id, type, text) ==
  IF InitDbOk(U) THEN Outcome(op, s, id, type, text)
  ELSE Outcome(op, s, id, "exception", "sqlite3.IntegrityError")

Role(s) == user[s].role
UserDept(s) == user[s].department_code

\* the script reaches the panels: init_db completed and the session is
\* logged in
Running(s) == InitDbOk(users) /\ logged_in[s]

(***************************************************************************)
(* Login and logout.                                                       *)
(***************************************************************************)
LoginNames == {<<"admin">>, <<"h">>, <<"r">>}
LoginPasswords == {AdminPassword, <<"p">>}

Login(s, u, p) ==
  /\ InitDbOk(users)
  /\ ~logged_in[s]
  /\ LET df == {r \in users : r.username = u /\ r.password = p}
     IN IF df = {}
        THEN /\ last' = Outcome("Login", s, 0, "error", "Invalid credentials")
             /\ UNCHANGED <<logged_in, user>>
        ELSE /\ logged_in' = [logged_in EXCEPT ![s] = TRUE]
             /\ user' = [user EXCEPT ![s] = CHOOSE r \in df : TRUE]
             /\ last' = Outcome("Login", s, 0, "none", "")
  /\ UNCHANGED <<users, userSeq, tbl, tblSeq, assigns, assignSeq, lessons,
                 lessonSeq, rank>>

Logout(s) ==
  /\ Running(s)
  /\ logged_in' = [logged_in EXCEPT ![s] = FALSE]
  /\ user' = [user EXCEPT ![s] = NoUser]
  /\ last' = Outcome("Logout", s, 0, "none", "")
  /\ UNCHANGED <<users, userSeq, tbl, tblSeq, assigns, assignSeq, lessons,
                 lessonSeq, rank>>

(***************************************************************************)
(* Users tab: the add_user_form and the Delete User button.                *)
(***************************************************************************)
RawUsernames == {<<>>, <<"h">>, <<" ", "r">>, <<"admin">>}
RawPasswords == {<<" ">>, <<"p">>}

\* the roles and departments the form offers to the session
RoleChoices(s) ==
  IF Role(s) = "SUPER_ADMIN" THEN {"HOD", "CLASS_REP", "SUPER_ADMIN"}
  ELSE {"CLASS_REP"}

DeptChoices(s) == IF Role(s) = "SUPER_ADMIN" THEN Depts ELSE {UserDept(s)}

\* INSERT OR IGNORE INTO users: a taken username is ignored without error
InsertUser(U, seq, u, p, role, dept) ==
  IF UsernameTaken(U, u) THEN U
  ELSE U \cup {[id |-> seq + 1, username |-> u, password |-> p,
                role |-> role, department_code |-> dept]}

InsertUserSeq(U, seq, u) == IF UsernameTaken(U, u) THEN seq ELSE seq + 1

CreateUser(s, u_input, p_input, role_select, dept_select) ==
  /\ Running(s)
  /\ Role(s) \in {"SUPER_ADMIN", "HOD"}
  /\ userSeq < MaxUserSeq
  /\ role_select \in RoleChoices(s)
  /\ dept_select \in DeptChoices(s)
  /\ LET u == Strip(u_input)
         p == Strip(p_input)
         final_dept == IF role_select = "SUPER_ADMIN" THEN "ALL" ELSE dept_select
     IN IF u = <<>> \/ p = <<>>
        THEN /\ last' = Outcome("CreateUser", s, 0, "error",
                                "Username and Password required.")
             /\ UNCHANGED <<users, userSeq>>
        ELSE LET U2 == InsertUser(users, userSeq, u, p, role_select, final_dept)
                 seq2 == InsertUserSeq(users, userSeq, u)
             IN /\ users' = InitDbUsers(U2, seq2)
                /\ userSeq' = InitDbSeq(U2, seq2)
                /\ last' = Shown(U2, "CreateUser", s, 0, "success",
                                 "User created.")
  /\ UNCHANGED <<tbl, tblSeq, assigns, assignSeq, lessons, lessonSeq,
                 logged_in, user, rank>>

\* the users the tab lists for the session
UsersDf(s) ==
  IF Role(s) = "SUPER_ADMIN" THEN users
  ELSE {r \in users : r.department_code = UserDept(s) /\ r.role = "CLASS_REP"}

\* SELECT id FROM users WHERE username=? for the session's username
CurrentIds(s) == {r.id : r \in {x \in users : x.username = user[s].username}}

\* a self-delete test against the id the session read at login
IsSelf_LoginId(s, del_user_id) == del_user_id = user[s].id

\* the self-delete test of the handler
IsSelf(s, del_user_id) == del_user_id \in CurrentIds(s)

\* DELETE FROM users WHERE id = ?
DeleteUserRows(U, del_user_id) == {r \in U : r.id # del_user_id}

DeleteUser(s, del_user_id) ==
  /\ Running(s)
  /\ Role(s) \in {"SUPER_ADMIN", "HOD"}
  /\ userSeq <= MaxUserSeq
  /\ UsersDf(s) # {}
  /\ del_user_id \in 1..(userSeq + 1)
  /\ IF CurrentIds(s) = {}
     THEN \* .iloc[0] of an empty frame raises IndexError
          /\ last' = Outcome("DeleteUser", s, del_user_id, "exception",
                             "IndexError")
          /\ UNCHANGED <<users, userSeq>>
     ELSE IF IsSelf(s, del_user_id)
     THEN /\ last' = Outcome("DeleteUser", s, del_user_id, "error",
                             "Cannot delete your own account.")
          /\ UNCHANGED <<users, userSeq>>
     ELSE LET U2 == DeleteUserRows(users, del_user_id)
          IN /\ users' = InitDbUsers(U2, userSeq)
             /\ userSeq' = InitDbSeq(U2, userSeq)
             /\ last' = Shown(U2, "DeleteUser", s, del_user_id, "success",
                              "User deleted.")
  /\ UNCHANGED <<tbl, tblSeq, assigns, assignSeq, lessons, lessonSeq,
                 logged_in, user, rank>>

(***************************************************************************)
(* manage_entity(table, name_col, display_name): the add form, the list    *)
(* and the Delete Record button of the Trainers, Classes and Units tabs.   *)
(* A row is [id, name, department_code]; rowid is id.                      *)
(***************************************************************************)
RawNames == {<<>>, <<" ">>, <<"a">>, <<" ", "A">>, <<"b">>}

SeqTotal == tblSeq["trainers"] + tblSeq["classes"] + tblSeq["units"]

HasRow(T, name, dept) ==
  \E r \in T : r.name = name /\ r.department_code = dept

\* INSERT OR IGNORE INTO {table}: a row that breaks UNIQUE(name,
\* department_code) is skipped and no error is raised
InsertEntity(T, seq, name, dept) ==
  IF HasRow(T, name, dept) THEN T
  ELSE T \cup {[id |-> seq + 1, name |-> name, department_code |-> dept]}

InsertEntitySeq(T, seq, name, dept) ==
  IF HasRow(T, name, dept) THEN seq ELSE seq + 1

\* execute() of an INSERT OR IGNORE: it commits and returns (True, "Success")
ExecuteInsertOrIgnore == [success |-> TRUE, msg |-> "Success"]

AddEntity(s, table, name_input, dept) ==
  /\ Running(s)
  /\ Role(s) \in {"SUPER_ADMIN", "HOD"}
  /\ SeqTotal < MaxEntityRows
  /\ dept \in DeptChoices(s)
  /\ LET name == Upper(Strip(name_input))
     IN IF name = <<>>
        THEN /\ last' = TableOutcome("AddEntity", s, table, 0, 0, "error",
                                     "Name cannot be empty.")
             /\ UNCHANGED <<tbl, tblSeq>>
        ELSE /\ tbl' = [tbl EXCEPT ![table] =
                          InsertEntity(@, tblSeq[table], name, dept)]
             /\ tblSeq' = [tblSeq EXCEPT ![table] =
                             InsertEntitySeq(tbl[table], @, name, dept)]
             /\ last' = IF ExecuteInsertOrIgnore.success
                        THEN TableOutcome("AddEntity", s, table, 0, 0,
                                          "success", "added.")
                        ELSE TableOutcome("AddEntity", s, table, 0, 0,
                                          "error", ExecuteInsertOrIgnore.msg)
  /\ UNCHANGED <<users, userSeq, assigns, assignSeq, lessons, lessonSeq,
                 logged_in, user, rank>>

\* a list that shows every row to every role
ManageList_All(s, table) ==
  {[ID |-> r.id, Name |-> r.name, Dept |-> r.department_code] :
     r \in tbl[table]}

\* df_list: the rows the tab lists for the session (their order is not
\* represented)
ManageList(s, table) ==
  IF Role(s) = "SUPER_ADMIN"
  THEN {[ID |-> r.id, Name |-> r.name, Dept |-> r.department_code] :
          r \in tbl[table]}
  ELSE {[ID |-> r.id, Name |-> r.name, Dept |-> r.department_code] :
          r \in {x \in tbl[table] : x.department_code = UserDept(s)}}

\* a safety check that refuses nothing
DeleteRefused_Never(s, table, del_id) == FALSE

\* the safety check of the Delete Record button: a HOD, and the row with
\* this rowid exists and is of another department
DeleteRefused(s, table, del_id) ==
  /\ Role(s) = "HOD"
  /\ LET check == {r \in tbl[table] : r.id = del_id}
     IN check # {} /\ \E r \in check : r.department_code # UserDept(s)

DeleteEntity(s, table, del_id) ==
  /\ Running(s)
  /\ Role(s) \in {"SUPER_ADMIN", "HOD"}
  /\ ManageList(s, table) # {}
  /\ del_id \in 1..(tblSeq[table] + 1)
  /\ IF DeleteRefused(s, table, del_id)
     THEN /\ last' = TableOutcome("DeleteEntity", s, table, del_id, 0, "error",
                        "You cannot delete records from other departments.")
          /\ UNCHANGED tbl
     ELSE /\ tbl' = [tbl EXCEPT ![table] = {r \in @ : r.id # del_id}]
          /\ last' = TableOutcome("DeleteEntity", s, table, del_id, 0,
                                  "success", "Record deleted.")
  /\ UNCHANGED <<users, userSeq, tblSeq, assigns, assignSeq, lessons,
                 lessonSeq, logged_in, user, rank>>

(***************************************************************************)
(* Bulk Import tab.  A file is its column names and its rows; a cell is    *)
(* the text of the CSV field, or missing when the line is short.           *)
(* pandas.read_csv reads an empty or missing field as NaN, and str(NaN) is *)
(* "nan".                                                                  *)
(***************************************************************************)
Cell(t) == [missing |-> FALSE, text |-> t]
MissingCell == [missing |-> TRUE, text |-> <<>>]

\* pd.read_csv on one field
ReadCsv(c) ==
  IF c.missing \/ c.text = <<>> THEN [nan |-> TRUE, text |-> <<>>]
  ELSE [nan |-> FALSE, text |-> c.text]

\* str(value) of a cell value
PyStr(v) == IF v.nan THEN <<"n", "a", "n">> ELSE v.text

NameCells == {Cell(<<>>), MissingCell, Cell(<<" ">>), Cell(<<"a">>), Cell(<<"b">>)}
DeptCells == {Cell(<<"ICT">>), Cell(<<" ", "ELEC">>), Cell(<<"X">>)}

FileRows == [Name : NameCells, Department : DeptCells]

Files ==
  {[columns |-> {"Name"}, rows |-> <<>>]} \cup
  {[columns |-> {"Name", "Department"}, rows |-> r] :
     r \in UNION {[1..k -> FileRows] : k \in 0..MaxFileRows}}

\* n and d of one row of the loop
ImportName(row) == Upper(Strip(PyStr(ReadCsv(row.Name))))
ImportDept(row) == Strip(PyStr(ReadCsv(row.Department)))

\* d in DEPARTMENTS
IsDepartment(d) == Len(d) = 1 /\ d[1] \in DEPARTMENTS

\* the row passes the HOD check and the test "n and d in DEPARTMENTS"
ImportTakes(s, row) ==
  /\ ~(Role(s) = "HOD" /\ ImportDept(row) # <<UserDept(s)>>)
  /\ ImportName(row) # <<>>
  /\ IsDepartment(ImportDept(row))

\* the loop over df.iterrows(): the table, its sequence and count after the
\* rows from index i on
RECURSIVE ImportLoop(_, _, _, _, _, _)
ImportLoop(s, rows, i, T, seq, count) ==
  IF i > Len(rows) THEN [T |-> T, seq |-> seq, count |-> count]
  ELSE IF ImportTakes(s, rows[i])
  THEN LET n == ImportName(rows[i])
           d == ImportDept(rows[i])[1]
       IN ImportLoop(s, rows, i + 1, InsertEntity(T, seq, n, d),
                     InsertEntitySeq(T, seq, n, d), count + 1)
  ELSE ImportLoop(s, rows, i + 1, T, seq, count)

BulkImport(s, table, file) ==
  /\ Running(s)
  /\ Role(s) \in {"SUPER_ADMIN", "HOD"}
  /\ SeqTotal + Len(file.rows) <= MaxFileRows
  /\ IF {"Name", "Department"} \subseteq file.columns
     THEN LET res == ImportLoop(s, file.rows, 1, tbl[table], tblSeq[table], 0)
          IN /\ tbl' = [tbl EXCEPT ![table] = res.T]
             /\ tblSeq' = [tblSeq EXCEPT ![table] = res.seq]
             /\ last' = TableOutcome("BulkImport", s, table, 0, res.count,
                                     "success", "Imported {count} records")
     ELSE /\ last' = TableOutcome("BulkImport", s, table, 0, 0, "error",
                                  "File must have columns: Name, Department")
          /\ UNCHANGED <<tbl, tblSeq>>
  /\ UNCHANGED <<users, userSeq, assigns, assignSeq, lessons, lessonSeq,
                 logged_in, user, rank>>

(***************************************************************************)
(* Assign Reps tab: the assign_form and the Delete Assignment button.  An  *)
(* assignment is [id, username, class_name, department_code].              *)
(***************************************************************************)
\* reps and cls_df: what the form offers to the session
Reps(s) ==
  IF Role(s) = "SUPER_ADMIN"
  THEN {u.username : u \in {x \in users : x.role = "CLASS_REP"}}
  ELSE {u.username : u \in {x \in users : x.role = "CLASS_REP"
                                          /\ x.department_code = UserDept(s)}}

ClsDf(s) ==
  IF Role(s) = "SUPER_ADMIN" THEN tbl["classes"]
  ELSE {c \in tbl["classes"] : c.department_code = UserDept(s)}

\* f"{class_name} ({department_code})"
ClassOption(c) == c.name \o <<" ", "(", c.department_code, ")">>

\* the index of the last " (" of the option
LastSep(cl) ==
  LET at == {i \in 1..(Len(cl) - 1) : cl[i] = " " /\ cl[i + 1] = "("}
  IN CHOOSE i \in at : \A j \in at : j <= i

\* cl.rsplit(" (", 1), d_code[:-1] and cl_name.strip()
OptionClass(cl) == Strip(SubSeq(cl, 1, LastSep(cl) - 1))
OptionDept(cl) == SubSeq(cl, LastSep(cl) + 2, Len(cl) - 1)

HasAssign(A, rep, cl_name, d_code) ==
  \E a \in A : a.username = rep /\ a.class_name = cl_name
               /\ a.department_code = d_code

\* INSERT OR IGNORE INTO class_rep_assignments
InsertAssign(A, seq, rep, cl_name, d_code) ==
  IF HasAssign(A, rep, cl_name, d_code) THEN A
  ELSE A \cup {[id |-> seq + 1, username |-> rep, class_name |-> cl_name,
                department_code |-> d_code]}

InsertAssignSeq(A, seq, rep, cl_name, d_code) ==
  IF HasAssign(A, rep, cl_name, d_code) THEN seq ELSE seq + 1

AssignRep(s, rep, c) ==
  /\ Running(s)
  /\ Role(s) \in {"SUPER_ADMIN", "HOD"}
  /\ assignSeq < MaxAssignSeq
  /\ rep \in Reps(s)
  /\ c \in ClsDf(s)
  /\ LET cl == ClassOption(c)
         cl_name == OptionClass(cl)
         d_code == OptionDept(cl)[1]
     IN /\ assigns' = InsertAssign(assigns, assignSeq, rep, cl_name, d_code)
        /\ assignSeq' = InsertAssignSeq(assigns, assignSeq, rep, cl_name, d_code)
        /\ last' = Outcome("AssignRep", s, 0, "success", "Rep assigned.")
  /\ UNCHANGED <<users, userSeq, tbl, tblSeq, lessons, lessonSeq, logged_in,
                 user, rank>>

\* assign_df: the assignments the tab lists for the session
AssignDf(s) ==
  IF Role(s) = "SUPER_ADMIN" THEN assigns
  ELSE {a \in assigns : a.department_code = UserDept(s)}

DeleteAssignment(s, del_assign_id) ==
  /\ Running(s)
  /\ Role(s) \in {"SUPER_ADMIN", "HOD"}
  /\ AssignDf(s) # {}
  /\ del_assign_id \in 1..(assignSeq + 1)
  /\ assigns' = {a \in assigns : a.id # del_assign_id}
  /\ last' = Outcome("DeleteAssignment", s, del_assign_id, "success",
                     "Assignment deleted.")
  /\ UNCHANGED <<users, userSeq, tbl, tblSeq, assignSeq, lessons, lessonSeq,
                 logged_in, user, rank>>

(***************************************************************************)
(* Class rep interface: the rep_form.  A lesson_attendance row is [id,      *)
(* lesson_date, class_name, unit_name, trainer_name, time_slot, status,    *)
(* reason, remarks, reported_by, department_code]; its timestamp is not    *)
(* represented.  A date stands for its ISO text, which str(ldate) gives.   *)
(***************************************************************************)
Dates == {<<2024, 3, 1>>}
Slots == {"7.30-9.00", "09.00-10.30"}
Statuses == {"Taught", "Not Taught"}
Reasons == {"Trainer Absent"}
Remarks == {<<>>, <<"x">>}
\* the value of a selectbox without options, and of reason when the status
\* is "Taught"
None == <<>>
NoReason == "None"

\* assigned: the session's assignments
Assigned(s) == {a \in assigns : a.username = user[s].username}

NamesOf(T, dept) == {r.name : r \in {x \in T : x.department_code = dept}}

\* a uniqueness test that also compares the reporter
SlotTaken_SameReporter(L, row) ==
  \E x \in L :
    /\ x.lesson_date = row.lesson_date
    /\ x.class_name = row.class_name
    /\ x.unit_name = row.unit_name
    /\ x.trainer_name = row.trainer_name
    /\ x.time_slot = row.time_slot
    /\ x.reported_by = row.reported_by

\* UNIQUE(lesson_date, class_name, unit_name, trainer_name, time_slot)
SlotTaken(L, row) ==
  \E x \in L :
    /\ x.lesson_date = row.lesson_date
    /\ x.class_name = row.class_name
    /\ x.unit_name = row.unit_name
    /\ x.trainer_name = row.trainer_name
    /\ x.time_slot = row.time_slot

\* execute() of the plain INSERT: IntegrityError gives (False, duplicate)
ExecuteInsertLesson(L, row) ==
  IF SlotTaken(L, row) THEN [success |-> FALSE, msg |-> execute_duplicate]
  ELSE [success |-> TRUE, msg |-> "Success"]

\* first is the row assigned.iloc[0]: the query has no ORDER BY, so which
\* of the session's assignments comes first is not determined
SubmitReport(s, first, ldate, slot, cls, unit, trainer, status, reason, remarks) ==
  /\ Running(s)
  /\ Role(s) = "CLASS_REP"
  /\ lessonSeq < MaxLessonSeq
  /\ first \in Assigned(s)
  /\ LET dept == first.department_code
         classes == {a.class_name : a \in Assigned(s)}
         units == NamesOf(tbl["units"], dept)
         trainers == NamesOf(tbl["trainers"], dept)
     IN /\ cls \in classes
        /\ unit \in (IF units = {} THEN {None} ELSE units)
        /\ trainer \in (IF trainers = {} THEN {None} ELSE trainers)
        /\ reason \in (IF status = "Not Taught" THEN Reasons ELSE {NoReason})
        /\ IF trainer = None \/ unit = None
           THEN /\ last' = Outcome("SubmitReport", s, 0, "error",
                                   "Trainer and Unit required.")
                /\ UNCHANGED <<lessons, lessonSeq>>
           ELSE LET row == [id |-> lessonSeq + 1, lesson_date |-> ldate,
                            class_name |-> cls, unit_name |-> unit,
                            trainer_name |-> trainer, time_slot |-> slot,
                            status |-> status, reason |-> reason,
                            remarks |-> remarks,
                            reported_by |-> user[s].username,
                            department_code |-> dept]
                    res == ExecuteInsertLesson(lessons, row)
                IN IF res.success
                   THEN /\ lessons' = lessons \cup {row}
                        /\ lessonSeq' = lessonSeq + 1
                        /\ last' = Outcome("SubmitReport", s, 0, "success",
                                           "Report submitted!")
                   ELSE /\ last' = Outcome("SubmitReport", s, 0, "error",
                                           res.msg)
                        /\ UNCHANGED <<lessons, lessonSeq>>
  /\ rank' = <<>>
  /\ UNCHANGED <<users, userSeq, tbl, tblSeq, assigns, assignSeq, logged_in,
                 user>>

(***************************************************************************)
(* Dashboard: the Trainer Statistics frame that a run of a SUPER_ADMIN or  *)
(* HOD session shows (the Refresh button starts such a run).  A rate is in *)
(* tenths of a percent.  sort_values('Rate (%)', ascending=False) uses the *)
(* default kind 'quicksort', which is not stable: the order of rows with   *)
(* equal rates is whatever the sort of the build leaves.                   *)
(***************************************************************************)
\* round(taught / total * 100, 1) in tenths; no total the model reaches has
\* a rate half way between two tenths
RateTenths(taught, total) == (2000 * taught + total) \div (2 * total)

\* the dashboard's df for the session
DashboardDf(s) ==
  IF Role(s) = "SUPER_ADMIN" THEN lessons
  ELSE {x \in lessons : x.department_code = UserDept(s)}

\* one row of df.groupby('trainer_name').apply(...)
TrainerStat(df, t) ==
  LET g == {x \in df : x.trainer_name = t}
      taught == Cardinality({x \in g : x.status = "Taught"})
      missed == Cardinality({x \in g : x.status = "Not Taught"})
  IN [trainer_name |-> t, Total |-> Cardinality(g), Taught |-> taught,
      Missed |-> missed, Rate |-> RateTenths(taught, Cardinality(g))]

TrainerStats(df) == {TrainerStat(df, t) : t \in {x.trainer_name : x \in df}}

\* the frames the sort may leave: every arrangement of the rows with the
\* rates in descending order
RankOutputs(df) ==
  LET st == TrainerStats(df)
      n == Cardinality(st)
  IN {p \in [1..n -> st] :
        /\ \A i, j \in 1..n : p[i] = p[j] => i = j
        /\ \A i, j \in 1..n : i < j => p[i].Rate >= p[j].Rate}

Dashboard(s) ==
  /\ Running(s)
  /\ Role(s) \in {"SUPER_ADMIN", "HOD"}
  /\ IF DashboardDf(s) = {}
     THEN /\ rank' = <<>>
          /\ last' = Outcome("Dashboard", s, 0, "info",
                             "No attendance records found.")
     ELSE /\ rank' \in RankOutputs(DashboardDf(s))
          /\ last' = Outcome("Dashboard", s, 0, "none", "")
  /\ UNCHANGED <<users, userSeq, tbl, tblSeq, assigns, assignSeq, lessons,
                 lessonSeq, logged_in, user>>

(***************************************************************************)
(* The state after the first script run: init_db on an empty database.     *)
(***************************************************************************)
SeedAdmin ==
  [id |-> 1, username |-> AdminName, password |-> AdminPassword,
   role |-> "SUPER_ADMIN", department_code |-> "ALL"]

NoSessions ==
  /\ logged_in = [s \in Sessions |-> FALSE]
  /\ user = [s \in Sessions |-> NoUser]

EmptyTables ==
  /\ tbl = [t \in Tables |-> {}]
  /\ tblSeq = [t \in Tables |-> 0]

EmptyAssigns == assigns = {} /\ assignSeq = 0

EmptyLessons == lessons = {} /\ lessonSeq = 0

Init ==
  /\ users = InitDbUsers({}, 0)
  /\ userSeq = InitDbSeq({}, 0)
  /\ EmptyTables
  /\ EmptyAssigns
  /\ EmptyLessons
  /\ NoSessions
  /\ last = NoOutcome
  /\ rank = <<>>

(***************************************************************************)
(* Spec: user management, from the first run, by any sessions.             *)
(***************************************************************************)
Next ==
  \/ \E s \in Sessions, u \in LoginNames, p \in LoginPasswords : Login(s, u, p)
  \/ \E s \in Sessions : Logout(s)
  \/ \E s \in Sessions, u \in RawUsernames, p \in RawPasswords,
        r \in {"HOD", "CLASS_REP", "SUPER_ADMIN"}, d \in Depts :
       CreateUser(s, u, p, r, d)
  \/ \E s \in Sessions, id \in 1..(MaxUserSeq + 2) : DeleteUser(s, id)

Spec == Init /\ [][Next]_vars

UserIds == 1..(MaxUserSeq + 2)

\* the users rows that carry the session's username
OwnRows(s) == {r \in users : r.username = user[s].username}

\* C4: a Delete User request never removes the row of the acting session's
\* username; a request for that row's id ends with an error message and
\* leaves the users table as it was, and so does a request for the id the
\* session read at login.
C4_SelfDeleteRejected ==
  [][\A s \in Sessions, id \in UserIds :
       (last'.op = "DeleteUser" /\ last'.s = s /\ last'.id = id
        /\ DeleteUser(s, id)) =>
         /\ OwnRows(s) \subseteq users'
         /\ (\E r \in OwnRows(s) : r.id = id) =>
              /\ last'.type = "error"
              /\ last'.text = "Cannot delete your own account."
              /\ users' = users
         /\ id = user[s].id => users' = users]_vars

\* a session whose account was deleted and created again under the same
\* username asked to delete the new row and was refused
C4_Witness ==
  /\ last.op = "DeleteUser"
  /\ last.type = "error"
  /\ logged_in[last.s]
  /\ \E r \in OwnRows(last.s) : r.id = last.id /\ r.id # user[last.s].id

\* C10: the users rows a HOD session creates are CLASS_REP rows of its
\* department, and the users rows a HOD session deletes are CLASS_REP rows
\* of its department.
C10_HodUserScope ==
  [][\A s \in Sessions :
       (logged_in[s] /\ Role(s) = "HOD" /\ last'.s = s) =>
         /\ last'.op = "CreateUser" =>
              \A r \in users' \ users :
                r.role = "CLASS_REP" /\ r.department_code = UserDept(s)
         /\ last'.op = "DeleteUser" =>
              \A r \in users \ users' :
                r.role = "CLASS_REP" /\ r.department_code = UserDept(s)]_vars

\* a HOD session created a class rep
C10_Witness ==
  /\ last.op = "CreateUser"
  /\ last.type = "success"
  /\ Role(last.s) = "HOD"
  /\ \E r \in users : r.role = "CLASS_REP" /\ r.department_code = UserDept(last.s)

\* C11: on every users table the Create User and Delete User handlers of
\* any sessions can leave behind, init_db completes (the seeding of the
\* default super admin does not break the uniqueness of username), and the
\* table then holds at least one SUPER_ADMIN row.
C11_InitDbSucceeds == InitDbOk(users) /\ ~NoSuperAdmin(users)

\* the last SUPER_ADMIN row was deleted while the username "admin" was free,
\* and the init_db of the next run seeded the default super admin again
C11_Witness ==
  /\ last.op = "DeleteUser"
  /\ last.type = "success"
  /\ \E u \in users :
       u.username = AdminName /\ u.role = "SUPER_ADMIN" /\ u.id > 1

(***************************************************************************)
(* SpecEntity: the reference tables, worked on by a SUPER_ADMIN session    *)
(* and a HOD session.  InitEntity is the state of Spec after admin created *)
(* the HOD "h" of ICT and both logged in.                                  *)
(***************************************************************************)
HodH ==
  [id |-> 2, username |-> <<"h">>, password |-> <<"p">>, role |-> "HOD",
   department_code |-> "ICT"]

AdminAndHod ==
  /\ users = {SeedAdmin, HodH}
  /\ userSeq = 2
  /\ logged_in = [s \in Sessions |-> TRUE]
  /\ user = [s \in Sessions |-> IF s = "s1" THEN SeedAdmin ELSE HodH]

InitEntity ==
  /\ AdminAndHod
  /\ EmptyTables
  /\ EmptyAssigns
  /\ EmptyLessons
  /\ last = NoOutcome
  /\ rank = <<>>

EntityIds == 1..(MaxEntityRows + 1)

NextEntity ==
  \/ \E s \in Sessions, t \in Tables, n \in RawNames, d \in Depts :
       AddEntity(s, t, n, d)
  \/ \E s \in Sessions, t \in Tables, id \in EntityIds : DeleteEntity(s, t, id)

SpecEntity == InitEntity /\ [][NextEntity]_vars

\* C2: a Delete Record request of a HOD session for a row of another
\* department ends with the permission error and leaves every table as it
\* was, in each of the three tables.
C2_HodDeleteOtherDept ==
  [][\A s \in Sessions, t \in Tables, id \in EntityIds :
       (/\ last'.op = "DeleteEntity" /\ last'.s = s /\ last'.id = id
        /\ Role(s) = "HOD"
        /\ \E r \in tbl[t] : r.id = id /\ r.department_code # UserDept(s)
        /\ DeleteEntity(s, t, id)) =>
         /\ last'.type = "error"
         /\ last'.text = "You cannot delete records from other departments."
         /\ tbl' = tbl]_vars

\* a HOD session asked to delete a row of another department, which is
\* still there
C2_Witness ==
  /\ last.op = "DeleteEntity"
  /\ Role(last.s) = "HOD"
  /\ last.type = "error"
  /\ \E r \in tbl[last.table] :
       r.id = last.id /\ r.department_code # UserDept(last.s)

\* C3: the list of a HOD session holds exactly the rows of the table whose
\* department_code is the session's department, in each of the three tables.
C3_HodListScoped ==
  \A s \in Sessions, t \in Tables :
    (logged_in[s] /\ Role(s) = "HOD") =>
      /\ \A x \in ManageList(s, t) : x.Dept = UserDept(s)
      /\ \A r \in tbl[t] :
           r.department_code = UserDept(s) =>
             [ID |-> r.id, Name |-> r.name, Dept |-> r.department_code]
               \in ManageList(s, t)
      /\ \A x \in ManageList(s, t) :
           [id |-> x.ID, name |-> x.Name, department_code |-> x.Dept] \in tbl[t]

\* a HOD session is logged in while a table holds a row of its department
\* and a row of another one
C3_Witness ==
  \E s \in Sessions, t \in Tables :
    /\ logged_in[s] /\ Role(s) = "HOD"
    /\ \E r \in tbl[t] : r.department_code = UserDept(s)
    /\ \E r \in tbl[t] : r.department_code # UserDept(s)

\* C5: an Add request whose normalized (name, department) is already in the
\* table leaves the table as it was and ends with an outcome that differs
\* from the one shown when a row was created.
C5_AddDuplicateSurfaced ==
  [][\A s \in Sessions, t \in Tables, n \in RawNames, d \in Depts :
       (AddEntity(s, t, n, d) /\ HasRow(tbl[t], Upper(Strip(n)), d)) =>
         /\ tbl' = tbl
         /\ ~(last'.type = "success" /\ last'.text = "added.")]_vars

\* C6: a Delete Record request for an id that is in no row of the table ends
\* with an error outcome and leaves the table as it was.
C6_DeleteAbsentNotFound ==
  [][\A s \in Sessions, t \in Tables, id \in EntityIds :
       (DeleteEntity(s, t, id) /\ \A r \in tbl[t] : r.id # id) =>
         /\ last'.type = "error"
         /\ tbl' = tbl]_vars

(***************************************************************************)
(* SpecImport: bulk imports and deletions by the two sessions.             *)
(***************************************************************************)
NextImport ==
  \/ \E s \in Sessions, t \in Tables, f \in Files : BulkImport(s, t, f)
  \/ \E s \in Sessions, t \in Tables, id \in 1..(MaxFileRows + 1) :
       DeleteEntity(s, t, id)

SpecImport == InitEntity /\ [][NextImport]_vars

\* the Name cell is empty, whitespace only or missing
BlankName(row) == row.Name.missing \/ Strip(row.Name.text) = <<>>

\* the row has a Name and its Department is one the session may import into
ValidRow(s, row) ==
  /\ ~BlankName(row)
  /\ IsDepartment(Strip(row.Department.text))
  /\ Role(s) = "HOD" => Strip(row.Department.text) = <<UserDept(s)>>

\* the table row a valid file row stands for
RowOf(row) ==
  [name |-> Upper(Strip(row.Name.text)),
   department_code |-> Strip(row.Department.text)[1]]

\* C7: an import reports the number of valid rows of the file, every row it
\* creates comes from a valid row (none from a row with a blank Name), and
\* when the valid rows are distinct and new it creates exactly that many.
C7_ImportSkipsBlankNames ==
  [][\A s \in Sessions, t \in Tables, f \in Files :
       (BulkImport(s, t, f) /\ {"Name", "Department"} \subseteq f.columns) =>
         LET valid == {i \in DOMAIN f.rows : ValidRow(s, f.rows[i])}
             new == tbl'[t] \ tbl[t]
         IN /\ last'.count = Cardinality(valid)
            /\ \A r \in new :
                 \E i \in valid :
                   [name |-> r.name, department_code |-> r.department_code]
                     = RowOf(f.rows[i])
            /\ (/\ \A i, j \in valid :
                     RowOf(f.rows[i]) = RowOf(f.rows[j]) => i = j
                /\ \A i \in valid :
                     ~HasRow(tbl[t], RowOf(f.rows[i]).name,
                             RowOf(f.rows[i]).department_code))
                 => Cardinality(new) = Cardinality(valid)]_vars

\* an import of a file with a valid row and a row with a blank Name counted
\* two rows
C7_Witness ==
  /\ last.op = "BulkImport"
  /\ last.count = 2
  /\ \E r \in tbl[last.table] : r.name = <<"N", "A", "N">>
  /\ \E r \in tbl[last.table] : r.name = <<"A">>

(***************************************************************************)
(* SpecAssign: assignments, made and deleted by the SUPER_ADMIN session    *)
(* and the HOD session of ICT.  InitAssign is the state after admin also   *)
(* created the class reps "r" (ICT) and "q" (ELEC) and the classes A of    *)
(* ICT and B of ELEC.                                                      *)
(***************************************************************************)
RepR ==
  [id |-> 3, username |-> <<"r">>, password |-> <<"p">>, role |-> "CLASS_REP",
   department_code |-> "ICT"]

RepQ(dept) ==
  [id |-> 4, username |-> <<"q">>, password |-> <<"p">>, role |-> "CLASS_REP",
   department_code |-> dept]

ClassA == [id |-> 1, name |-> <<"A">>, department_code |-> "ICT"]
ClassB == [id |-> 2, name |-> <<"B">>, department_code |-> "ELEC"]

InitAssign ==
  /\ users = {SeedAdmin, HodH, RepR, RepQ("ELEC")}
  /\ userSeq = 4
  /\ logged_in = [s \in Sessions |-> TRUE]
  /\ user = [s \in Sessions |-> IF s = "s1" THEN SeedAdmin ELSE HodH]
  /\ tbl = [t \in Tables |-> IF t = "classes" THEN {ClassA, ClassB} ELSE {}]
  /\ tblSeq = [t \in Tables |-> IF t = "classes" THEN 2 ELSE 0]
  /\ EmptyAssigns
  /\ EmptyLessons
  /\ last = NoOutcome
  /\ rank = <<>>

AssignIds == 1..(MaxAssignSeq + 1)

NextAssign ==
  \/ \E s \in Sessions, rep \in {<<"r">>, <<"q">>}, c \in {ClassA, ClassB} :
       AssignRep(s, rep, c)
  \/ \E s \in Sessions, id \in AssignIds : DeleteAssignment(s, id)

SpecAssign == InitAssign /\ [][NextAssign]_vars

\* C9: after a Delete Assignment request of a HOD session every assignment
\* of another department that existed before it still exists.
C9_HodKeepsOtherDeptAssignments ==
  [][\A s \in Sessions, id \in AssignIds :
       (DeleteAssignment(s, id) /\ Role(s) = "HOD") =>
         \A a \in assigns : a.department_code # UserDept(s) => a \in assigns']_vars

\* a HOD session deleted an assignment while one of another department
\* exists
C9_Witness ==
  /\ last.op = "DeleteAssignment"
  /\ Role(last.s) = "HOD"
  /\ \E a \in assigns : a.department_code # UserDept(last.s)

(***************************************************************************)
(* SpecReport: reports by two class rep sessions.  InitReport is the state *)
(* after admin created the reps "r" and "q" of ICT, a class A in ICT and   *)
(* one in ELEC, the unit A and the trainer B of ICT, assigned r to A of    *)
(* ICT and q to both classes, and the two reps logged in.                  *)
(***************************************************************************)
ClassAElec == [id |-> 2, name |-> <<"A">>, department_code |-> "ELEC"]

UnitA == [id |-> 1, name |-> <<"A">>, department_code |-> "ICT"]
TrainerA == [id |-> 2, name |-> <<"A">>, department_code |-> "ICT"]
TrainerB == [id |-> 1, name |-> <<"B">>, department_code |-> "ICT"]

AssignRA ==
  [id |-> 1, username |-> <<"r">>, class_name |-> <<"A">>,
   department_code |-> "ICT"]
AssignQA ==
  [id |-> 2, username |-> <<"q">>, class_name |-> <<"A">>,
   department_code |-> "ICT"]
AssignQAElec ==
  [id |-> 3, username |-> <<"q">>, class_name |-> <<"A">>,
   department_code |-> "ELEC"]

InitReport ==
  /\ users = {SeedAdmin, HodH, RepR, RepQ("ICT")}
  /\ userSeq = 4
  /\ logged_in = [s \in Sessions |-> TRUE]
  /\ user = [s \in Sessions |-> IF s = "s1" THEN RepR ELSE RepQ("ICT")]
  /\ tbl = [t \in Tables |->
              CASE t = "classes" -> {ClassA, ClassAElec}
                [] t = "units" -> {UnitA}
                [] t = "trainers" -> {TrainerB}]
  /\ tblSeq = [t \in Tables |-> IF t = "classes" THEN 2 ELSE 1]
  /\ assigns = {AssignRA, AssignQA, AssignQAElec}
  /\ assignSeq = 3
  /\ EmptyLessons
  /\ last = NoOutcome
  /\ rank = <<>>

ClassNames == {<<"A">>, <<"B">>}
FormNames == {None, <<"A">>, <<"B">>}

Submit ==
  \E s \in Sessions, first \in assigns, ldate \in Dates, slot \in Slots,
     cls \in ClassNames, unit \in FormNames, trainer \in FormNames,
     status \in Statuses, reason \in Reasons \cup {NoReason},
     remarks \in Remarks :
    SubmitReport(s, first, ldate, slot, cls, unit, trainer, status, reason,
                 remarks)

NextReport == Submit

SpecReport == InitReport /\ [][NextReport]_vars

SameSlot(x, y) ==
  /\ x.lesson_date = y.lesson_date
  /\ x.class_name = y.class_name
  /\ x.unit_name = y.unit_name
  /\ x.trainer_name = y.trainer_name
  /\ x.time_slot = y.time_slot

\* C1: the store never holds two lesson_attendance rows of one lesson slot,
\* and a Submit Report request for a slot that is already stored ends with
\* the duplicate error and leaves lesson_attendance as it was.
C1_OneReportPerSlot ==
  /\ [](\A x, y \in lessons : SameSlot(x, y) => x = y)
  /\ [][\A s \in Sessions, x \in lessons, first \in assigns,
          status \in Statuses, reason \in Reasons \cup {NoReason},
          remarks \in Remarks :
         SubmitReport(s, first, x.lesson_date, x.time_slot, x.class_name,
                      x.unit_name, x.trainer_name, status, reason, remarks) =>
           /\ last'.type = "error"
           /\ last'.text = execute_duplicate
           /\ lessons' = lessons
           /\ lessonSeq' = lessonSeq]_vars

\* a rep's report was refused as a duplicate of the report another rep had
\* stored for the slot
C1_Witness ==
  /\ last.op = "SubmitReport"
  /\ last.type = "error"
  /\ last.text = execute_duplicate
  /\ \E x \in lessons : x.reported_by # user[last.s].username
  /\ \A x \in lessons : x.reported_by # user[last.s].username

(***************************************************************************)
(* SpecScope: reports by a class rep that is assigned in two departments.  *)
(* InitScope is the state after admin created the reps "r" and "q" of ICT, *)
(* the class A, the unit A and the trainer B of ICT and the class B of     *)
(* ELEC, assigned r to A and q to A and to B, and the two reps logged in.  *)
(***************************************************************************)
AssignQB ==
  [id |-> 3, username |-> <<"q">>, class_name |-> <<"B">>,
   department_code |-> "ELEC"]

InitScope ==
  /\ users = {SeedAdmin, HodH, RepR, RepQ("ICT")}
  /\ userSeq = 4
  /\ logged_in = [s \in Sessions |-> TRUE]
  /\ user = [s \in Sessions |-> IF s = "s1" THEN RepR ELSE RepQ("ICT")]
  /\ tbl = [t \in Tables |->
              CASE t = "classes" -> {ClassA, ClassB}
                [] t = "units" -> {UnitA}
                [] t = "trainers" -> {TrainerB}]
  /\ tblSeq = [t \in Tables |-> IF t = "classes" THEN 2 ELSE 1]
  /\ assigns = {AssignRA, AssignQA, AssignQB}
  /\ assignSeq = 3
  /\ EmptyLessons
  /\ last = NoOutcome
  /\ rank = <<>>

NextScope == Submit

SpecScope == InitScope /\ [][NextScope]_vars

\* the assignment rows of a username that carry the class and department
Matching(A, username, class_name, department_code) ==
  {a \in A : /\ a.username = username
             /\ a.class_name = class_name
             /\ a.department_code = department_code}

\* C12: every lesson_attendance row a Submit Report request stores carries
\* the reporter, class and department of one class_rep_assignments row of
\* the reporting class rep as of the request, also when the rep is assigned
\* to classes of more than one department.
C12_ReportWithinAssignment ==
  [][\A x \in lessons' \ lessons :
       Matching(assigns, x.reported_by, x.class_name, x.department_code) # {}]_vars

\* a rep that is assigned in two departments stored a report
C12_Witness ==
  /\ last.op = "SubmitReport"
  /\ last.type = "success"
  /\ \E x \in lessons, a, b \in assigns :
       /\ x.reported_by = user[last.s].username
       /\ a.username = x.reported_by
       /\ b.username = x.reported_by
       /\ a.department_code # b.department_code

(***************************************************************************)
(* SpecRank: reports by the class rep session of "r" and dashboards of the *)
(* SUPER_ADMIN session.  InitRank is the state after admin created the rep *)
(* "r", the class A, the unit A and the trainers A and B of ICT, assigned  *)
(* r to A, and r and admin logged in.                                      *)
(***************************************************************************)
InitRank ==
  /\ users = {SeedAdmin, HodH, RepR}
  /\ userSeq = 3
  /\ logged_in = [s \in Sessions |-> TRUE]
  /\ user = [s \in Sessions |-> IF s = "s1" THEN RepR ELSE SeedAdmin]
  /\ tbl = [t \in Tables |->
              CASE t = "classes" -> {ClassA}
                [] t = "units" -> {UnitA}
                [] t = "trainers" -> {TrainerA, TrainerB}]
  /\ tblSeq = [t \in Tables |-> IF t = "trainers" THEN 2 ELSE 1]
  /\ assigns = {AssignRA}
  /\ assignSeq = 1
  /\ EmptyLessons
  /\ last = NoOutcome
  /\ rank = <<>>

NextRank ==
  \/ Submit
  \/ \E s \in Sessions : Dashboard(s)

SpecRank == InitRank /\ [][NextRank]_vars

\* the code point of a character of a name
CharOrd(c) ==
  CASE c = " " -> 32
    [] c = "A" -> 65
    [] c = "B" -> 66
    [] c = "N" -> 78
    [] OTHER -> 0

\* a < b for two names, as strings compare
RECURSIVE NameLess(_, _)
NameLess(a, b) ==
  IF b = <<>> THEN FALSE
  ELSE IF a = <<>> THEN TRUE
  ELSE IF Head(a) # Head(b) THEN CharOrd(Head(a)) < CharOrd(Head(b))
  ELSE NameLess(Tail(a), Tail(b))

\* C8: the Trainer Statistics frame is in descending order of rate, and
\* trainers with equal rates are in ascending order of name.
C8_RankOrder ==
  last.op = "Dashboard" =>
    \A i, j \in DOMAIN rank :
      i < j =>
        \/ rank[i].Rate > rank[j].Rate
        \/ /\ rank[i].Rate = rank[j].Rate
           /\ NameLess(rank[i].trainer_name, rank[j].trainer_name)

\* a dashboard showed two trainers with equal rates
C8_Witness ==
  /\ last.op = "Dashboard"
  /\ Len(rank) = 2
  /\ rank[1].Rate = rank[2].Rate

====
